---- MODULE Spec2Model ----
(***************************************************************************)
(* Model of the shader-lab application: the configuration load, import and *)
(* panel edits (App, ControlPanel), the shader compositor and the          *)
(* recompilation controller and uniform binder of the renderer (P5Canvas). *)
(*                                                                         *)
(* Conventions.                                                            *)
(*  - A JavaScript object is a TLA+ function whose DOMAIN is the set of    *)
(*    the fields the object has: `x.f === undefined` is f \notin DOMAIN x. *)
(*  - A real number of a layer is held in hundredths (1.4 is 140, 0.47 is   *)
(*    47), the zoom of the viewport in thousandths (1.0 is 1000).          *)
(*  - A string read by length (KeyboardEvent.key) is the sequence of its   *)
(*    characters.                                                          *)
(*  - A nullable reference is a sequence of length at most one (<<>> is    *)
(*    null).                                                               *)
(*  - The identity of the array held by config.order is the field orderRef *)
(*    of the configuration; a newly created array gets an identity larger  *)
(*    than every earlier one.  The constant DEFAULT_ORDER has identity 0.  *)
(*  - Shader source text is a sequence of pieces in the order in which the *)
(*    code appends them to the string.                                     *)
(***************************************************************************)
EXTENDS Integers, Sequences, FiniteSets, TLC

VARIABLES
    storage,              \* localStorage item 'shader_lab_config'
    mounted,              \* App has been constructed (useState initializer ran)
    crashed,              \* a render threw: React unmounted the tree
    config,               \* App state `config`
    draggedItem,          \* ControlPanel state `draggedItem`
    emitted,              \* alerts and console messages of the last handler
    edits,                \* history: the number of panel edits of layer fields
    setupDone,            \* p5 called setup
    shaderRef,            \* P5Canvas shaderRef.current
    shaderUpdatePending,  \* P5Canvas shaderUpdatePending.current
    effectScheduled,      \* the [config.order] effect is queued, not yet run
    orderChanged,         \* history: config.order was replaced since the last frame
    lastFrame,            \* what the last draw call did
    composeIn,            \* compositor harness: the order given
    composeOut,           \* compositor harness: the source produced
    now,                  \* p5.millis(), in milliseconds
    textAnimRef,          \* P5Canvas textAnimRef.current
    displayText,          \* P5Canvas state `displayText`
    viewRef,              \* P5Canvas viewRef.current
    uiInteractionRef,     \* App uiInteractionRef.current
    isSaved,              \* ControlPanel state `isSaved`
    isSidebarOpen,        \* App state `isSidebarOpen`
    userImage,            \* App state `userImage` (an image is the number of its choice)
    userImageRef,         \* P5Canvas userImageRef.current
    chosen,               \* history: the number of image files chosen so far
    reading,              \* FileReader reads in flight
    decoding,             \* p5.loadImage decodes in flight
    lastInput             \* history: the last key press taken or pointer event, and what it found

vars == <<storage, mounted, crashed, config, draggedItem, emitted, edits, setupDone,
          shaderRef, shaderUpdatePending, effectScheduled, orderChanged,
          lastFrame, composeIn, composeOut, now, textAnimRef, displayText, viewRef,
          uiInteractionRef, isSaved, isSidebarOpen, userImage, userImageRef, chosen,
          reading, decoding, lastInput>>

(***************************************************************************)
(* Bounds of the model.                                                    *)
(***************************************************************************)
MaxDocOrderLen == 2
MaxOrderRef == 2
MaxDragIndex == 1
MaxDragRow == 3
MaxEdits == 2
MaxComposeLen == 3
MaxNow == 1000
MaxPan == 10
MaxImages == 2
MaxLoopNow == 2200
KeyDeadline == 600

(***************************************************************************)
(* Generic helpers.                                                        *)
(***************************************************************************)
Has(obj, f) == f \in DOMAIN obj

\* { ...a, ...b }
Spread(a, b) == [f \in DOMAIN a \cup DOMAIN b |-> IF f \in DOMAIN b THEN b[f] ELSE a[f]]

Range(s) == {s[i] : i \in 1..Len(s)}

Includes(s, x) == \E i \in 1..Len(s) : s[i] = x

SeqsUpTo(S, n) == UNION {[1..m -> S] : m \in 0..n}

(***************************************************************************)
(* types.ts                                                                *)
(***************************************************************************)
LayerKey ==
    {"holographic", "liquid_metal", "vertex_pulse", "pixel_artefact",
     "double_exposure", "glitch", "halftone", "contrast"}

(***************************************************************************)
(* App: defaults.                                                          *)
(***************************************************************************)
DEFAULT_LAYER ==
    [enabled |-> FALSE, intensity |-> 100, timeScale |-> 140, uvScale |-> 490,
     noiseScale |-> 200, noiseSpeed |-> 100]

\* Mutant of DEFAULT_ORDER: the keys in the order of the LayerKey type.
DEFAULT_ORDER_AsDeclared ==
    <<"holographic", "liquid_metal", "vertex_pulse", "pixel_artefact",
      "double_exposure", "glitch", "halftone", "contrast">>

DEFAULT_ORDER ==
    <<"vertex_pulse", "liquid_metal", "glitch", "pixel_artefact", "halftone",
      "holographic", "double_exposure", "contrast">>

\* Mutant of DEFAULT_CONFIG: every layer is the plain DEFAULT_LAYER.
DEFAULT_CONFIG_Plain ==
    [order |-> DEFAULT_ORDER, orderRef |-> 0, layers |-> [k \in LayerKey |-> DEFAULT_LAYER]]

DEFAULT_CONFIG ==
    [order |-> DEFAULT_ORDER,
     orderRef |-> 0,
     layers |->
        [k \in LayerKey |->
            CASE k = "holographic" -> Spread(DEFAULT_LAYER, [enabled |-> TRUE, intensity |-> 100])
              [] k = "liquid_metal" -> Spread(DEFAULT_LAYER, [enabled |-> FALSE, intensity |-> 100,
                                                              noiseScale |-> 250, noiseSpeed |-> 120])
              [] k = "vertex_pulse" -> Spread(DEFAULT_LAYER, [enabled |-> TRUE, intensity |-> 100])
              [] k = "pixel_artefact" -> Spread(DEFAULT_LAYER, [enabled |-> FALSE, intensity |-> 100])
              [] k = "double_exposure" -> Spread(DEFAULT_LAYER, [enabled |-> TRUE, intensity |-> 47])
              [] k = "glitch" -> Spread(DEFAULT_LAYER, [enabled |-> FALSE, intensity |-> 100])
              [] k = "halftone" -> Spread(DEFAULT_LAYER, [enabled |-> FALSE, intensity |-> 100])
              [] k = "contrast" -> Spread(DEFAULT_LAYER, [enabled |-> FALSE, intensity |-> 5000])]]

(***************************************************************************)
(* App: the useState initializer (configuration load and migration).       *)
(* A stored text is [kind |-> "none"] (no item), [kind |-> "garbage"]      *)
(* (JSON.parse throws) or [kind |-> "json", doc |-> d].  An array parsed   *)
(* from text is a new array: identity 1 in a run that has created none.    *)
(***************************************************************************)

\* if (!parsed.order) parsed.order = DEFAULT_ORDER
WithOrder(parsed) ==
    IF Has(parsed, "order")
    THEN Spread(parsed, [orderRef |-> 1])
    ELSE Spread(parsed, [order |-> DEFAULT_ORDER, orderRef |-> 0])

IsLegacy(parsed) == Has(parsed, "speed") \/ Has(parsed, "scale")

\* Object.keys(parsed.layers) and parsed.layers[key] throw a TypeError when
\* the document has no layers object; the catch clause handles it.
LoadThrows(parsed) == ~Has(parsed, "layers")

MigrateLegacy(parsed) ==
    LET oldSpeed == IF Has(parsed, "speed") THEN parsed.speed ELSE 140
        oldScale == IF Has(parsed, "scale") THEN parsed.scale ELSE 490
        newLayers ==
            [k \in DOMAIN parsed.layers \cup Range(DEFAULT_ORDER) |->
                IF k \in DOMAIN parsed.layers
                THEN Spread(parsed.layers[k], [timeScale |-> oldSpeed, uvScale |-> oldScale])
                ELSE DEFAULT_CONFIG.layers[k]]
    IN  Spread(parsed, [layers |-> newLayers, order |-> DEFAULT_ORDER, orderRef |-> 0])

\* DEFAULT_ORDER.forEach(key => { if (!parsed.order.includes(key)) parsed.order.push(key) })
RECURSIVE PushMissing(_, _)
PushMissing(order, i) ==
    IF i > Len(DEFAULT_ORDER) THEN order
    ELSE PushMissing(IF Includes(order, DEFAULT_ORDER[i]) THEN order
                     ELSE Append(order, DEFAULT_ORDER[i]), i + 1)

EnsureProps(layer) ==
    Spread([timeScale |-> 140, uvScale |-> 490, noiseScale |-> 200, noiseSpeed |-> 100], layer)

MigrateRobust(parsed) ==
    LET filled ==
            [k \in DOMAIN parsed.layers \cup Range(DEFAULT_ORDER) |->
                IF k \in DOMAIN parsed.layers THEN parsed.layers[k]
                ELSE DEFAULT_CONFIG.layers[k]]
    IN  Spread(parsed, [layers |-> [k \in DOMAIN filled |-> EnsureProps(filled[k])],
                        order |-> PushMissing(parsed.order, 1)])

LoadFails(saved) == saved.kind = "garbage" \/ (saved.kind = "json" /\ LoadThrows(saved.doc))

\* Mutant of LoadConfig: the catch clause keeps what the repair had reached.
LoadConfig_KeepsParsed(saved) ==
    IF saved.kind # "json" THEN DEFAULT_CONFIG
    ELSE LET parsed == WithOrder(saved.doc)
         IN  IF LoadThrows(saved.doc) THEN parsed
             ELSE IF IsLegacy(parsed) THEN MigrateLegacy(parsed) ELSE MigrateRobust(parsed)

LoadConfig(saved) ==
    IF saved.kind # "json" \/ LoadThrows(saved.doc) THEN DEFAULT_CONFIG
    ELSE LET parsed == WithOrder(saved.doc)
         IN  IF IsLegacy(parsed) THEN MigrateLegacy(parsed) ELSE MigrateRobust(parsed)

(***************************************************************************)
(* constants: the module registry.  A fragment is the sequence of its      *)
(* lines of interest: for `uniforms` the declared names in textual order,  *)
(* for `uv`, `split` and `color` one line naming the effect, and <<>> for  *)
(* the empty fragment ``.  MODULE_KEYS is the property order of the object *)
(* literal, which Object.values follows.                                   *)
(***************************************************************************)
SHADER_HEADER ==
    <<"precision mediump float", "varying vec2 vTexCoord", "uniform sampler2D uTexture",
      "uniform float uTime", "uniform vec2 uResolution", "float random(vec2)",
      "float noise(vec2)", "float fbm(vec2)">>

MODULE_KEYS ==
    <<"vertex_pulse", "liquid_metal", "glitch", "pixel_artefact", "holographic",
      "double_exposure", "halftone", "contrast">>

SHADER_MODULES ==
    [k \in Range(MODULE_KEYS) |->
        CASE k = "vertex_pulse" ->
                [uniforms |-> <<"uEnablePulse", "uIntensityPulse", "uScalePulse", "uTimeScalePulse">>,
                 uv |-> <<"pulse: radial ripple on uv">>, split |-> <<>>, color |-> <<>>]
          [] k = "liquid_metal" ->
                [uniforms |-> <<"uEnableLiquid", "uIntensityLiquid", "uScaleLiquid", "uTimeScaleLiquid",
                                "uNoiseScaleLiquid", "uNoiseSpeedLiquid">>,
                 uv |-> <<"liquid: fbm flow on uv">>, split |-> <<>>, color |-> <<>>]
          [] k = "glitch" ->
                [uniforms |-> <<"uEnableGlitch", "uIntensityGlitch", "uScaleGlitch", "uTimeScaleGlitch">>,
                 uv |-> <<"glitch: strip smear on uv">>,
                 split |-> <<"glitch: splitAmount += drift and jitter">>,
                 color |-> <<"glitch: strip fade, blur and noise">>]
          [] k = "pixel_artefact" ->
                [uniforms |-> <<"uEnablePixel", "uIntensityPixel", "uScalePixel", "uTimeScalePixel">>,
                 uv |-> <<"pixel: quantise uv to grid">>, split |-> <<>>, color |-> <<>>]
          [] k = "holographic" ->
                [uniforms |-> <<"uEnableHolo", "uIntensityHolo", "uScaleHolo", "uTimeScaleHolo">>,
                 uv |-> <<>>,
                 split |-> <<"holo: splitAmount += 0.005 * intensity * sin(t)">>,
                 color |-> <<"holo: scanlines and tint">>]
          [] k = "double_exposure" ->
                [uniforms |-> <<"uEnableDouble", "uIntensityDouble", "uScaleDouble", "uTimeScaleDouble">>,
                 uv |-> <<>>, split |-> <<>>, color |-> <<"double: add zoomed echo">>]
          [] k = "halftone" ->
                [uniforms |-> <<"uEnableHalftone", "uIntensityHalftone", "uScaleHalftone",
                                "uTimeScaleHalftone">>,
                 uv |-> <<>>, split |-> <<>>, color |-> <<"halftone: dot mask">>]
          [] k = "contrast" ->
                [uniforms |-> <<"uEnableContrast", "uIntensityContrast", "uScaleContrast",
                                "uTimeScaleContrast">>,
                 uv |-> <<>>, split |-> <<>>, color |-> <<"contrast: grayscale contrast curve">>]]

(***************************************************************************)
(* P5Canvas: generateFragmentShader.  A piece is one `source += ...`: its  *)
(* part, the key of the loop iteration that appended it ("" outside the    *)
(* loops) and the text appended.                                           *)
(***************************************************************************)
Piece(part, key, text) == [part |-> part, key |-> key, text |-> text]

\* if (SHADER_MODULES[key])
HasModule(key) == key \in DOMAIN SHADER_MODULES

UniformPieces ==
    [i \in 1..Len(MODULE_KEYS) |-> Piece("uniforms", "", SHADER_MODULES[MODULE_KEYS[i]].uniforms)]

\* Mutant of UvPieces: the loop runs over the registry, not over the order.
UvPieces_RegistryOrder(order) ==
    LET keys == SelectSeq(MODULE_KEYS, LAMBDA k : Includes(order, k))
    IN  [i \in 1..Len(keys) |->
            Piece("uv", keys[i], <<"// " \o keys[i] \o " UV">> \o SHADER_MODULES[keys[i]].uv)]

UvPieces(order) ==
    LET keys == SelectSeq(order, HasModule)
    IN  [i \in 1..Len(keys) |->
            Piece("uv", keys[i], <<"// " \o keys[i] \o " UV">> \o SHADER_MODULES[keys[i]].uv)]

\* if (SHADER_MODULES[key] && SHADER_MODULES[key].split)
HasSplit(key) == HasModule(key) /\ SHADER_MODULES[key].split # <<>>

SplitPieces(order) ==
    LET keys == SelectSeq(order, HasSplit)
    IN  [i \in 1..Len(keys) |->
            Piece("split", keys[i], <<"// " \o keys[i] \o " Split">> \o SHADER_MODULES[keys[i]].split)]

ColorPieces(order) ==
    LET keys == SelectSeq(order, HasModule)
    IN  [i \in 1..Len(keys) |->
            Piece("color", keys[i], <<"// " \o keys[i] \o " Color">> \o SHADER_MODULES[keys[i]].color)]

MainOpen == Piece("main", "", <<"void main() {", "vec2 uv = vTexCoord", "vec4 color", "float splitAmount = 0.0">>)

Sampling == Piece("sampling", "", <<"if (abs(splitAmount) > 0.0001) rgb split sample else single sample">>)

MainClose == Piece("end", "", <<"gl_FragColor = color", "}">>)

\* Mutant of generateFragmentShader: uniforms are declared for the keys of the
\* order only.
generateFragmentShader_UniformsOfOrder(order) ==
    LET keys == SelectSeq(order, HasModule)
    IN  <<Piece("header", "", SHADER_HEADER)>>
            \o [i \in 1..Len(keys) |-> Piece("uniforms", "", SHADER_MODULES[keys[i]].uniforms)]
            \o <<MainOpen>>
            \o UvPieces(order) \o SplitPieces(order) \o <<Sampling>> \o ColorPieces(order)
            \o <<MainClose>>

\* Mutant of generateFragmentShader: one loop over the order appends each
\* key's uv fragment and, right behind it, its split fragment.
RECURSIVE UvAndSplitPieces(_)
UvAndSplitPieces(order) ==
    IF order = <<>> THEN <<>>
    ELSE UvPieces(<<Head(order)>>) \o SplitPieces(<<Head(order)>>) \o UvAndSplitPieces(Tail(order))

generateFragmentShader_OneLoop(order) ==
    <<Piece("header", "", SHADER_HEADER)>> \o UniformPieces \o <<MainOpen>>
        \o UvAndSplitPieces(order) \o <<Sampling>> \o ColorPieces(order)
        \o <<MainClose>>

generateFragmentShader(order) ==
    <<Piece("header", "", SHADER_HEADER)>> \o UniformPieces \o <<MainOpen>>
        \o UvPieces(order) \o SplitPieces(order) \o <<Sampling>> \o ColorPieces(order)
        \o <<MainClose>>

(***************************************************************************)
(* P5Canvas: draw, the dynamic uniforms.  A pushed value is <<v>>, or <<>> *)
(* when the expression pushed is undefined.                                *)
(***************************************************************************)
\* Mutant of nameMap: one abbreviation is misspelt.
nameMap_Misspelt ==
    [k \in LayerKey |->
        CASE k = "holographic" -> "Holo"
          [] k = "liquid_metal" -> "Liquid"
          [] k = "vertex_pulse" -> "Pulse"
          [] k = "pixel_artefact" -> "Pixel"
          [] k = "double_exposure" -> "Double"
          [] k = "glitch" -> "Glitch"
          [] k = "halftone" -> "HalfTone"
          [] k = "contrast" -> "Contrast"]

nameMap ==
    [k \in LayerKey |->
        CASE k = "holographic" -> "Holo"
          [] k = "liquid_metal" -> "Liquid"
          [] k = "vertex_pulse" -> "Pulse"
          [] k = "pixel_artefact" -> "Pixel"
          [] k = "double_exposure" -> "Double"
          [] k = "glitch" -> "Glitch"
          [] k = "halftone" -> "Halftone"
          [] k = "contrast" -> "Contrast"]

\* `${nameMap[key]}` inside a template literal
shortName(key) == IF key \in DOMAIN nameMap THEN nameMap[key] ELSE "undefined"

Get(obj, f) == IF Has(obj, f) THEN <<obj[f]>> ELSE <<>>

\* layer.noiseScale ?? 2.0
OrElse(opt, d) == IF opt = <<>> THEN <<d>> ELSE opt

LayerUniforms(key, layer) ==
    LET s == shortName(key)
        common ==
            ("uEnable" \o s) :> <<IF Has(layer, "enabled") /\ layer.enabled THEN 100 ELSE 0>>
            @@ ("uIntensity" \o s) :> Get(layer, "intensity")
            @@ ("uTimeScale" \o s) :> Get(layer, "timeScale")
            @@ ("uScale" \o s) :> Get(layer, "uvScale")
    IN  IF key = "liquid_metal"
        THEN common @@ ("uNoiseScale" \o s) :> OrElse(Get(layer, "noiseScale"), 200)
                    @@ ("uNoiseSpeed" \o s) :> OrElse(Get(layer, "noiseSpeed"), 100)
        ELSE common

\* Object.keys(config.layers).forEach(...): for each key of config.layers, the
\* setUniform calls of its iteration, as the map from name to value pushed.
DynamicUniforms(layers) == [k \in DOMAIN layers |-> LayerUniforms(k, layers[k])]

(***************************************************************************)
(* ControlPanel: the render of the layer rows.  A render that throws       *)
(* unmounts the whole tree (there is no error boundary).                   *)
(***************************************************************************)
Truthy(obj, f) == Has(obj, f) /\ obj[f]

RowRenders(cfg, key) ==
    /\ key \in DOMAIN cfg.layers    \* layer.enabled of undefined throws
    /\ key \in LayerKey             \* LAYER_ICONS[key] is undefined: <Icon/> throws
    /\ Truthy(cfg.layers[key], "enabled") =>
          /\ Has(cfg.layers[key], "intensity")      \* layer.intensity.toFixed
          /\ key # "contrast" => /\ Has(cfg.layers[key], "timeScale")
                                 /\ Has(cfg.layers[key], "uvScale")

\* config.order.map(...): throws when the configuration has no order
Renders(cfg) ==
    /\ Has(cfg, "order")
    /\ \A key \in Range(cfg.order) : Has(cfg, "layers") /\ RowRenders(cfg, key)

(***************************************************************************)
(* Documents the environment supplies: stored texts and imported files.    *)
(***************************************************************************)
Reverse(s) == [i \in 1..Len(s) |-> s[Len(s) + 1 - i]]

DocKeys == {"holographic", "glitch", "sepia"}

DuplicateOrder == [DEFAULT_ORDER EXCEPT ![2] = "vertex_pulse"]

DocOrders ==
    SeqsUpTo(DocKeys, MaxDocOrderLen) \cup {DEFAULT_ORDER, Reverse(DEFAULT_ORDER), DuplicateOrder}

DocLayerShapes ==
    {[enabled |-> TRUE, intensity |-> 300],
     [enabled |-> FALSE, intensity |-> 300, timeScale |-> 200, uvScale |-> 100],
     [enabled |-> TRUE, intensity |-> 50, timeScale |-> 200, uvScale |-> 100,
      noiseScale |-> 300, noiseSpeed |-> 50]}

DocLayerKeySets == {{}, {"holographic"}, {"glitch", "sepia"}, LayerKey}

DocLayers == {[k \in K |-> shape] : K \in DocLayerKeySets, shape \in DocLayerShapes}

Opt(f, S) == {[x \in {} |-> 0]} \cup {[x \in {f} |-> v] : v \in S}

StoredDocs ==
    {Spread(Spread(o, l), Spread(sp, sc)) :
        o \in Opt("order", DocOrders), l \in Opt("layers", DocLayers),
        sp \in Opt("speed", {200}), sc \in Opt("scale", {300})}

Json(doc) == [kind |-> "json", doc |-> doc]

StoredTexts == {[kind |-> "none"], [kind |-> "garbage"]} \cup {Json(d) : d \in StoredDocs}

ImportDocs ==
    {[order |-> DEFAULT_ORDER, layers |-> DEFAULT_CONFIG.layers],
     [order |-> <<"glitch", "liquid_metal", "glitch">>,
      layers |-> [k \in {"glitch", "liquid_metal"} |-> DEFAULT_CONFIG.layers[k]]],
     [order |-> <<"sepia">>, layers |-> DEFAULT_CONFIG.layers],
     [layers |-> DEFAULT_CONFIG.layers],
     [order |-> Reverse(DEFAULT_ORDER)],
     [x \in {} |-> 0]}

ImportTexts == {[kind |-> "garbage"]} \cup {Json(d) : d \in ImportDocs}

\* JSON.stringify(config): the text carries the fields, not the identity of
\* the order array.
Stringify(cfg) == Json([f \in DOMAIN cfg \ {"orderRef"} |-> cfg[f]])

\* Mutant of ImportValid: the validation forgets to look for `order`.
ImportValid_LayersOnly(doc) == Has(doc, "layers")

\* handleImportJson: if (parsed.layers && parsed.order)
ImportValid(doc) == Has(doc, "layers") /\ Has(doc, "order")

\* onDrop: if (json.layers && json.order)
DropValid(doc) == Has(doc, "layers") /\ Has(doc, "order")

(***************************************************************************)
(* ControlPanel: the edits.  Each yields the configuration handed to       *)
(* onChange.                                                               *)
(***************************************************************************)
EditKeys == {"liquid_metal"}

ParamValues == {300}

\* Mutant of toggleLayer: the edit copies the order array (order: [...config.order]).
toggleLayer_CopiesOrder(cfg, key) ==
    Spread(cfg, [orderRef |-> cfg.orderRef + 1,
                 layers |->
        Spread(cfg.layers,
               [k \in {key} |-> Spread(cfg.layers[key],
                                       [enabled |-> ~Truthy(cfg.layers[key], "enabled")])])])

toggleLayer(cfg, key) ==
    Spread(cfg, [layers |->
        Spread(cfg.layers,
               [k \in {key} |-> Spread(cfg.layers[key],
                                       [enabled |-> ~Truthy(cfg.layers[key], "enabled")])])])

\* Mutant of updateLayerParam: the layer is replaced, not spread
\* ([key]: { [param]: value }).
updateLayerParam_Unspread(cfg, key, param, value) ==
    Spread(cfg, [layers |->
        Spread(cfg.layers, [k \in {key} |-> [p \in {param} |-> value]])])

updateLayerParam(cfg, key, param, value) ==
    Spread(cfg, [layers |->
        Spread(cfg.layers,
               [k \in {key} |-> Spread(cfg.layers[key], [p \in {param} |-> value])])])

\* The sliders a row shows (only while the layer is enabled).
Sliders(cfg, key) ==
    IF ~Truthy(cfg.layers[key], "enabled") THEN {}
    ELSE {"intensity"}
         \cup (IF key # "contrast" THEN {"timeScale", "uvScale"} ELSE {})
         \cup (IF key = "liquid_metal" THEN {"noiseScale", "noiseSpeed"} ELSE {})

\* newOrder = [...order]; item = newOrder[from]; newOrder.splice(from, 1);
\* newOrder.splice(to, 0, item)   (indices from 0)
\* Mutant of Reorder: the target index is taken in the list before the removal.
Reorder_TargetBeforeRemoval(order, from, to) ==
    LET item == order[from + 1]
        removed == SubSeq(order, 1, from) \o SubSeq(order, from + 2, Len(order))
        at == IF from < to THEN to - 1 ELSE to
    IN  SubSeq(removed, 1, at) \o <<item>> \o SubSeq(removed, at + 1, Len(removed))

Reorder(order, from, to) ==
    LET item == IF from < Len(order) THEN order[from + 1] ELSE "undefined"
        removed == IF from < Len(order)
                   THEN SubSeq(order, 1, from) \o SubSeq(order, from + 2, Len(order))
                   ELSE order
        at == IF to < Len(removed) THEN to ELSE Len(removed)
    IN  SubSeq(removed, 1, at) \o <<item>> \o SubSeq(removed, at + 1, Len(removed))

\* The rows of the rendered list, by index.
Rows(cfg) == 0..(Len(cfg.order) - 1)

(***************************************************************************)
(* The state groups.                                                       *)
(***************************************************************************)
appVars == <<storage, mounted, crashed, config, draggedItem, edits>>

renderVars == <<setupDone, shaderRef, shaderUpdatePending, effectScheduled, orderChanged, lastFrame>>

harnessVars == <<composeIn, composeOut>>

imageVars == <<userImage, userImageRef, chosen, reading, decoding>>

animVars == <<textAnimRef, displayText, lastInput>>

ambientVars == <<now, viewRef, uiInteractionRef, isSaved, isSidebarOpen>>

NoConfig == [order |-> <<>>, orderRef |-> 0, layers |-> [k \in {} |-> 0]]

NoFrame ==
    [ran |-> FALSE, afterFrame |-> FALSE, rebuilds |-> 0, compileFailed |-> FALSE,
     orderChangedBefore |-> FALSE,
     order |-> <<>>, layerKeys |-> {}, pushed |-> [k \in {} |-> <<>>],
     threw |-> FALSE, shaded |-> FALSE, displayChar |-> <<>>, currentScale |-> <<1, 1>>,
     image |-> <<>>]


(***************************************************************************)
(* Numbers of the text animation.  A scale or a progress is a fraction     *)
(* <<numerator, denominator>> in lowest terms with a positive denominator; *)
(* times are whole milliseconds.                                           *)
(***************************************************************************)
Abs(n) == IF n < 0 THEN -n ELSE n

RECURSIVE GCD(_, _)
GCD(a, b) == IF b = 0 THEN a ELSE GCD(b, a % b)

\* The fraction n/d in lowest terms.
Rat(n, d) ==
    LET g == GCD(Abs(n), Abs(d))
        sign == IF d < 0 THEN -1 ELSE 1
    IN  <<sign * (n \div g), sign * (d \div g)>>

Norm(x) == Rat(x[1], x[2])

\* Sum, difference and product, not reduced.
RAdd(x, y) == <<x[1] * y[2] + y[1] * x[2], x[2] * y[2]>>

RSub(x, y) == <<x[1] * y[2] - y[1] * x[2], x[2] * y[2]>>

RMul(x, y) == <<x[1] * y[1], x[2] * y[2]>>

RLess(x, y) == x[1] * y[2] < y[1] * x[2]

RMin(x, y) == IF RLess(y, x) THEN y ELSE x

Zero == <<0, 1>>

One == <<1, 1>>

\* Mutant of easeInOutCubic: the second half adds the cube (1 + pow(...) / 2).
easeInOutCubic_AddsTail(x) ==
    IF RLess(x, <<1, 2>>)
    THEN Norm(RMul(RMul(RMul(<<4, 1>>, x), x), x))
    ELSE LET b == Norm(RAdd(RMul(<<-2, 1>>, x), <<2, 1>>))
         IN  Norm(RAdd(One, RMul(RMul(RMul(b, b), b), <<1, 2>>)))

\* x < 0.5 ? 4 * x * x * x : 1 - Math.pow(-2 * x + 2, 3) / 2
easeInOutCubic(x) ==
    IF RLess(x, <<1, 2>>)
    THEN Norm(RMul(RMul(RMul(<<4, 1>>, x), x), x))
    ELSE LET b == Norm(RAdd(RMul(<<-2, 1>>, x), <<2, 1>>))
         IN  Norm(RSub(One, RMul(RMul(RMul(b, b), b), <<1, 2>>)))

\* Math.min(1, elapsed / 500.0)
Progress(anim, nowMs) == RMin(One, Rat(nowMs - anim.startTime, 500))

\* anim.startScale + (target - anim.startScale) * easedProgress
ScaleToward(anim, target, nowMs) ==
    LET easedProgress == easeInOutCubic(Progress(anim, nowMs))
    IN  Norm(RAdd(anim.startScale, Norm(RMul(RSub(target, anim.startScale), easedProgress))))

(***************************************************************************)
(* P5Canvas: the text animation.                                           *)
(***************************************************************************)
InitialAnim ==
    [displayChar |-> <<"M">>, nextChar |-> <<"M">>, phase |-> "IDLE",
     startTime |-> 0, startOpacity |-> 255, startScale |-> One]

\* draw, "Animation Logic": the scale the frame draws the text with.
currentScale(anim, nowMs) ==
    IF anim.phase = "OUT"
    THEN IF ~RLess(Progress(anim, nowMs), One) THEN Zero ELSE ScaleToward(anim, Zero, nowMs)
    ELSE IF anim.phase = "IN"
    THEN IF ~RLess(Progress(anim, nowMs), One) THEN One ELSE ScaleToward(anim, One, nowMs)
    ELSE One

\* Mutant of AnimAfterFrame: the end of OUT keeps the glyph shown before.
AnimAfterFrame_NoCommit(anim, nowMs) ==
    IF anim.phase = "OUT" /\ ~RLess(Progress(anim, nowMs), One)
    THEN [anim EXCEPT !.phase = "IN", !.startTime = nowMs,
                      !.startOpacity = 255, !.startScale = Zero]
    ELSE IF anim.phase = "IN" /\ ~RLess(Progress(anim, nowMs), One)
    THEN [anim EXCEPT !.phase = "IDLE"]
    ELSE anim

\* Mutant of AnimAfterFrame: the end of OUT goes to IDLE at once.
AnimAfterFrame_SkipsIn(anim, nowMs) ==
    IF anim.phase = "OUT" /\ ~RLess(Progress(anim, nowMs), One)
    THEN [anim EXCEPT !.displayChar = anim.nextChar, !.phase = "IDLE", !.startTime = nowMs,
                      !.startOpacity = 255, !.startScale = Zero]
    ELSE IF anim.phase = "IN" /\ ~RLess(Progress(anim, nowMs), One)
    THEN [anim EXCEPT !.phase = "IDLE"]
    ELSE anim

\* Mutant of AnimAfterFrame: the end of OUT does not take the time again.
AnimAfterFrame_KeepsClock(anim, nowMs) ==
    IF anim.phase = "OUT" /\ ~RLess(Progress(anim, nowMs), One)
    THEN [anim EXCEPT !.displayChar = anim.nextChar, !.phase = "IN",
                      !.startOpacity = 255, !.startScale = Zero]
    ELSE IF anim.phase = "IN" /\ ~RLess(Progress(anim, nowMs), One)
    THEN [anim EXCEPT !.phase = "IDLE"]
    ELSE anim

\* draw, "Animation Logic": the animation state the frame leaves.
AnimAfterFrame(anim, nowMs) ==
    IF anim.phase = "OUT" /\ ~RLess(Progress(anim, nowMs), One)
    THEN [anim EXCEPT !.displayChar = anim.nextChar, !.phase = "IN", !.startTime = nowMs,
                      !.startOpacity = 255, !.startScale = Zero]
    ELSE IF anim.phase = "IN" /\ ~RLess(Progress(anim, nowMs), One)
    THEN [anim EXCEPT !.phase = "IDLE"]
    ELSE anim

\* handleKeyDown: the input filter
KeyAccepted(e) == Len(e.key) = 1 /\ ~e.ctrlKey /\ ~e.metaKey /\ ~e.altKey

\* Mutant of AnimAfterKey: a key press while IN only records the key.
AnimAfterKey_IgnoresIn(anim, key, nowMs) ==
    LET named == [anim EXCEPT !.nextChar = key]
    IN  IF anim.phase = "IDLE"
        THEN [named EXCEPT !.phase = "OUT", !.startTime = nowMs, !.startOpacity = 255,
                           !.startScale = One]
        ELSE named

\* Mutant of AnimAfterKey: a key press while IDLE shows the key at once.
AnimAfterKey_SwapsAtOnce(anim, key, nowMs) ==
    LET named == [anim EXCEPT !.nextChar = key]
    IN  IF anim.phase = "IDLE"
        THEN [named EXCEPT !.displayChar = key, !.phase = "OUT", !.startTime = nowMs,
                           !.startOpacity = 255, !.startScale = One]
        ELSE IF anim.phase = "IN"
        THEN [named EXCEPT !.phase = "OUT", !.startTime = nowMs, !.startOpacity = 255,
                           !.startScale = ScaleToward(anim, One, nowMs)]
        ELSE named

\* Mutant of AnimAfterKey: a key press while IDLE keeps the old startTime.
AnimAfterKey_KeepsStartTime(anim, key, nowMs) ==
    LET named == [anim EXCEPT !.nextChar = key]
    IN  IF anim.phase = "IDLE"
        THEN [named EXCEPT !.phase = "OUT", !.startOpacity = 255, !.startScale = One]
        ELSE IF anim.phase = "IN"
        THEN [named EXCEPT !.phase = "OUT", !.startTime = nowMs, !.startOpacity = 255,
                           !.startScale = ScaleToward(anim, One, nowMs)]
        ELSE named

\* Mutant of AnimAfterKey: a key press while OUT starts the OUT phase again.
AnimAfterKey_RestartsOut(anim, key, nowMs) ==
    LET named == [anim EXCEPT !.nextChar = key]
    IN  IF anim.phase = "IN"
        THEN [named EXCEPT !.phase = "OUT", !.startTime = nowMs, !.startOpacity = 255,
                           !.startScale = ScaleToward(anim, One, nowMs)]
        ELSE [named EXCEPT !.phase = "OUT", !.startTime = nowMs, !.startOpacity = 255,
                           !.startScale = One]

\* Mutant of AnimAfterKey: a key press while IN shrinks from the full scale.
AnimAfterKey_FromFullScale(anim, key, nowMs) ==
    LET named == [anim EXCEPT !.nextChar = key]
    IN  IF anim.phase \in {"IDLE", "IN"}
        THEN [named EXCEPT !.phase = "OUT", !.startTime = nowMs, !.startOpacity = 255,
                           !.startScale = One]
        ELSE named

\* handleKeyDown: the animation state after an accepted key, p5 being there
AnimAfterKey(anim, key, nowMs) ==
    LET named == [anim EXCEPT !.nextChar = key]
    IN  IF anim.phase = "IDLE"
        THEN [named EXCEPT !.phase = "OUT", !.startTime = nowMs, !.startOpacity = 255,
                           !.startScale = One]
        ELSE IF anim.phase = "IN"
        THEN [named EXCEPT !.phase = "OUT", !.startTime = nowMs, !.startOpacity = 255,
                           !.startScale = ScaleToward(anim, One, nowMs)]
        ELSE named

handleKeyDown(e) ==
    /\ mounted /\ ~crashed
    /\ displayText' = IF KeyAccepted(e) THEN e.key ELSE displayText
    /\ textAnimRef' = IF KeyAccepted(e) /\ setupDone
                      THEN AnimAfterKey(textAnimRef, e.key, now)
                      ELSE textAnimRef
    /\ lastInput' = IF KeyAccepted(e) /\ setupDone
                    THEN <<[kind |-> "key", phase |-> textAnimRef.phase]>>
                    ELSE lastInput
    /\ emitted' = <<>>
    /\ UNCHANGED <<appVars, renderVars, harnessVars, imageVars, ambientVars>>

\* The clock p5.millis() reads moves on.
Elapse(ms) ==
    /\ mounted
    /\ now + ms <= MaxNow
    /\ now' = now + ms
    /\ emitted' = <<>>
    /\ UNCHANGED <<appVars, renderVars, harnessVars, imageVars, animVars, viewRef, uiInteractionRef, isSaved, isSidebarOpen>>

(***************************************************************************)
(* P5Canvas: the viewport, and the flag App keeps while the pointer is     *)
(* over the control surface.                                               *)
(***************************************************************************)
InitialView == [x |-> 0, y |-> 0, zoom |-> 1000]

\* Mutant of ClampZoom: the lower limit is left out.
ClampZoom_NoFloor(newZoom) == IF newZoom < 5000 THEN newZoom ELSE 5000

\* Math.max(0.1, Math.min(newZoom, 5.0)), in thousandths
ClampZoom(newZoom) ==
    LET capped == IF newZoom < 5000 THEN newZoom ELSE 5000
    IN  IF capped > 100 THEN capped ELSE 100

\* onMouseEnter / onPointerEnter of the sidebar
pointerEnter ==
    /\ mounted /\ ~crashed
    /\ isSidebarOpen                 \* closed, the sidebar is hidden or of width 0
    /\ uiInteractionRef' = TRUE
    /\ emitted' = <<>>
    /\ UNCHANGED <<appVars, renderVars, harnessVars, imageVars, animVars, now, viewRef, isSaved, isSidebarOpen>>

\* onMouseLeave / onPointerLeave of the sidebar
pointerLeave ==
    /\ mounted /\ ~crashed
    /\ uiInteractionRef' = FALSE
    /\ emitted' = <<>>
    /\ UNCHANGED <<appVars, renderVars, harnessVars, imageVars, animVars, now, viewRef, isSaved, isSidebarOpen>>

\* ControlPanel's close button (and the overlay of the narrow layout):
\* onClose={() => setIsSidebarOpen(false)}
onClose ==
    /\ mounted /\ ~crashed
    /\ isSidebarOpen
    /\ isSidebarOpen' = FALSE
    /\ emitted' = <<>>
    /\ UNCHANGED <<appVars, renderVars, harnessVars, imageVars, animVars, now, viewRef, uiInteractionRef,
                   isSaved>>

\* The "Open Controls" button, shown while the sidebar is closed
openSidebar ==
    /\ mounted /\ ~crashed
    /\ ~isSidebarOpen
    /\ isSidebarOpen' = TRUE
    /\ emitted' = <<>>
    /\ UNCHANGED <<appVars, renderVars, harnessVars, imageVars, animVars, now, viewRef, uiInteractionRef,
                   isSaved>>

\* p5.width and p5.height: the size the canvas was created with
CanvasWidth == 4

CanvasHeight == 3

\* Mutant of OverCanvas: the edges of the canvas do not count.
OverCanvas_Exclusive(mouseX, mouseY) ==
    mouseX > 0 /\ mouseX < CanvasWidth /\ mouseY > 0 /\ mouseY < CanvasHeight

\* p5.mouseX >= 0 && p5.mouseX <= p5.width && p5.mouseY >= 0 && p5.mouseY <= p5.height
OverCanvas(mouseX, mouseY) ==
    mouseX >= 0 /\ mouseX <= CanvasWidth /\ mouseY >= 0 /\ mouseY <= CanvasHeight

mouseDragged(mouseX, mouseY, movedX, movedY) ==
    /\ mounted /\ ~crashed /\ setupDone
    /\ (~uiInteractionRef /\ OverCanvas(mouseX, mouseY)) =>
          (Abs(viewRef.x + movedX) <= MaxPan /\ Abs(viewRef.y + movedY) <= MaxPan)
    /\ viewRef' = IF ~uiInteractionRef /\ OverCanvas(mouseX, mouseY)
                  THEN [viewRef EXCEPT !.x = @ + movedX, !.y = @ + movedY]
                  ELSE viewRef
    /\ lastInput' = <<[kind |-> "drag", gated |-> uiInteractionRef]>>
    /\ emitted' = <<>>
    /\ UNCHANGED <<appVars, renderVars, harnessVars, imageVars, textAnimRef, displayText, now,
                   uiInteractionRef, isSaved, isSidebarOpen>>

\* Mutant of mouseWheel: the sign of the sensitivity is lost (zoom + deltaY * 0.001).
mouseWheel_AddsDelta(deltaY) ==
    /\ mounted /\ ~crashed /\ setupDone
    /\ viewRef' = IF uiInteractionRef THEN viewRef
                  ELSE [viewRef EXCEPT !.zoom = ClampZoom(viewRef.zoom + deltaY)]
    /\ lastInput' = <<[kind |-> "wheel", gated |-> uiInteractionRef]>>
    /\ emitted' = <<>>
    /\ UNCHANGED <<appVars, renderVars, harnessVars, imageVars, textAnimRef, displayText, now,
                   uiInteractionRef, isSaved, isSidebarOpen>>

\* Mutant of mouseWheel: the wheel is not gated by the flag.
mouseWheel_Ungated(deltaY) ==
    /\ mounted /\ ~crashed /\ setupDone
    /\ viewRef' = [viewRef EXCEPT !.zoom = ClampZoom(viewRef.zoom - deltaY)]
    /\ lastInput' = <<[kind |-> "wheel", gated |-> uiInteractionRef]>>
    /\ emitted' = <<>>
    /\ UNCHANGED <<appVars, renderVars, harnessVars, imageVars, textAnimRef, displayText, now,
                   uiInteractionRef, isSaved, isSidebarOpen>>

\* deltaY in whole units: zoomChange = event.deltaY * -0.001 is -deltaY thousandths
mouseWheel(deltaY) ==
    /\ mounted /\ ~crashed /\ setupDone
    /\ viewRef' = IF uiInteractionRef THEN viewRef
                  ELSE [viewRef EXCEPT !.zoom = ClampZoom(viewRef.zoom - deltaY)]
    /\ lastInput' = <<[kind |-> "wheel", gated |-> uiInteractionRef]>>
    /\ emitted' = <<>>
    /\ UNCHANGED <<appVars, renderVars, harnessVars, imageVars, textAnimRef, displayText, now,
                   uiInteractionRef, isSaved, isSidebarOpen>>

(***************************************************************************)
(* P5Canvas: the effect on [config.order], and a commit of a new           *)
(* configuration.  React runs the effects a commit queued before it        *)
(* renders again, and queues the effect of a commit whose config.order is  *)
(* another array than the one of the commit before.                        *)
(***************************************************************************)
\* if (shaderRef.current) shaderUpdatePending.current = true
PendingAfterEffect == IF shaderRef # <<>> THEN TRUE ELSE shaderUpdatePending

DepsChanged(old, new) == new.orderRef # old.orderRef

Commit(cfg) ==
    /\ config' = cfg
    /\ crashed' = ~Renders(cfg)
    /\ shaderUpdatePending' = IF effectScheduled THEN PendingAfterEffect ELSE shaderUpdatePending
    /\ effectScheduled' = (DepsChanged(config, cfg) /\ Renders(cfg))
    /\ orderChanged' = (orderChanged \/ (DepsChanged(config, cfg) /\ shaderRef # <<>>))

OrderEffect ==
    /\ mounted /\ ~crashed /\ effectScheduled
    /\ effectScheduled' = FALSE
    /\ shaderUpdatePending' = PendingAfterEffect
    /\ emitted' = <<>>
    /\ UNCHANGED <<appVars, setupDone, shaderRef, orderChanged, lastFrame, harnessVars, imageVars, animVars, ambientVars>>

(***************************************************************************)
(* App: construction, save, and the reload of the page.                    *)
(***************************************************************************)
Mount ==
    /\ ~mounted
    /\ mounted' = TRUE
    /\ config' = LoadConfig(storage)
    /\ crashed' = ~Renders(LoadConfig(storage))
    /\ effectScheduled' = Renders(LoadConfig(storage))
    /\ emitted' = IF LoadFails(storage) THEN <<"console.error: Failed to load saved config">> ELSE <<>>
    /\ UNCHANGED <<storage, draggedItem, edits, setupDone, shaderRef, shaderUpdatePending,
                   orderChanged, lastFrame, harnessVars, imageVars, animVars, ambientVars>>

handleSaveDefaults(written) ==
    /\ storage' = IF written THEN Stringify(config) ELSE storage
    /\ emitted' = IF written THEN <<>> ELSE <<"console.error: Failed to save config">>

\* ControlPanel: onSave(); setIsSaved(true); setTimeout(() => setIsSaved(false), 2000)
handleSaveClick(written) ==
    /\ mounted /\ ~crashed
    /\ handleSaveDefaults(written)
    /\ isSaved' = TRUE
    /\ UNCHANGED <<mounted, crashed, config, draggedItem, edits, renderVars, harnessVars, imageVars,
                   animVars, now, viewRef, uiInteractionRef, isSidebarOpen>>

\* the timer of handleSaveClick fires
savedTimeout ==
    /\ mounted /\ ~crashed
    /\ isSaved
    /\ isSaved' = FALSE
    /\ emitted' = <<>>
    /\ UNCHANGED <<appVars, renderVars, harnessVars, imageVars, animVars, now, viewRef, uiInteractionRef,
                   isSidebarOpen>>

Reload ==
    /\ mounted
    /\ mounted' = FALSE
    /\ crashed' = FALSE
    /\ config' = NoConfig
    /\ draggedItem' = <<>>
    /\ edits' = 0
    /\ setupDone' = FALSE
    /\ shaderRef' = <<>>
    /\ shaderUpdatePending' = FALSE
    /\ effectScheduled' = FALSE
    /\ orderChanged' = FALSE
    /\ lastFrame' = NoFrame
    /\ emitted' = <<>>
    /\ now' = 0
    /\ textAnimRef' = InitialAnim
    /\ displayText' = <<"M">>
    /\ lastInput' = <<>>
    /\ viewRef' = InitialView
    /\ uiInteractionRef' = FALSE
    /\ isSaved' = FALSE
    /\ isSidebarOpen' = TRUE
    /\ userImage' = <<>>
    /\ userImageRef' = <<>>
    /\ chosen' = 0
    /\ reading' = {}
    /\ decoding' = {}
    /\ UNCHANGED <<storage, harnessVars>>

(***************************************************************************)
(* App: import through the file picker and by dropping a file.  The        *)
(* handler of the FileReader's load event is the step; a parsed array is a *)
(* new array.                                                              *)
(***************************************************************************)
Parsed(text) == Spread(text.doc, [orderRef |-> config.orderRef + 1])

handleImportJson(text) ==
    /\ mounted /\ ~crashed
    /\ IF text.kind # "json"
       THEN /\ emitted' = <<"console.error: Error parsing JSON", "alert: Error parsing JSON file">>
            /\ UNCHANGED <<config, crashed, shaderUpdatePending, effectScheduled, orderChanged>>
       ELSE IF ImportValid(text.doc)
       THEN /\ config.orderRef < MaxOrderRef
            /\ emitted' = <<>>
            /\ Commit(Parsed(text))
       ELSE /\ emitted' = <<"alert: Invalid shader configuration file">>
            /\ UNCHANGED <<config, crashed, shaderUpdatePending, effectScheduled, orderChanged>>
    /\ UNCHANGED <<storage, mounted, draggedItem, edits, setupDone, shaderRef, lastFrame, harnessVars, imageVars, animVars, ambientVars>>

onDrop(text) ==
    /\ mounted /\ ~crashed
    /\ IF text.kind # "json"
       THEN /\ emitted' = <<"console.log: Not a config file">>
            /\ UNCHANGED <<config, crashed, shaderUpdatePending, effectScheduled, orderChanged>>
       ELSE IF DropValid(text.doc)
       THEN /\ config.orderRef < MaxOrderRef
            /\ emitted' = <<>>
            /\ Commit(Parsed(text))
       ELSE /\ emitted' = <<>>
            /\ UNCHANGED <<config, crashed, shaderUpdatePending, effectScheduled, orderChanged>>
    /\ UNCHANGED <<storage, mounted, draggedItem, edits, setupDone, shaderRef, lastFrame, harnessVars, imageVars, animVars, ambientVars>>

(***************************************************************************)
(* ControlPanel: the handlers.                                             *)
(***************************************************************************)
ToggleLayer(key) ==
    /\ mounted /\ ~crashed
    /\ key \in Range(config.order)
    /\ edits < MaxEdits
    /\ edits' = edits + 1
    /\ Commit(toggleLayer(config, key))
    /\ emitted' = <<>>
    /\ UNCHANGED <<storage, mounted, draggedItem, setupDone, shaderRef, lastFrame, harnessVars, imageVars, animVars, ambientVars>>

UpdateLayerParam(key, param, value) ==
    /\ mounted /\ ~crashed
    /\ key \in Range(config.order)
    /\ param \in Sliders(config, key)
    /\ edits < MaxEdits
    /\ edits' = edits + 1
    /\ Commit(updateLayerParam(config, key, param, value))
    /\ emitted' = <<>>
    /\ UNCHANGED <<storage, mounted, draggedItem, setupDone, shaderRef, lastFrame, harnessVars, imageVars, animVars, ambientVars>>

handleDragStart(index) ==
    /\ mounted /\ ~crashed
    /\ index \in Rows(config)
    /\ draggedItem' = <<index>>
    /\ emitted' = <<>>
    /\ UNCHANGED <<storage, mounted, crashed, config, edits, renderVars, harnessVars, imageVars, animVars, ambientVars>>

handleDragOver(index) ==
    /\ mounted /\ ~crashed
    /\ index \in Rows(config)
    /\ emitted' = <<>>
    /\ IF draggedItem = <<>> \/ draggedItem = <<index>>
       THEN UNCHANGED <<config, crashed, shaderUpdatePending, effectScheduled, orderChanged,
                        draggedItem>>
       ELSE /\ config.orderRef < MaxOrderRef
            /\ Commit(Spread(config, [order |-> Reorder(config.order, draggedItem[1], index),
                                      orderRef |-> config.orderRef + 1]))
            /\ draggedItem' = <<index>>
    /\ UNCHANGED <<storage, mounted, edits, setupDone, shaderRef, lastFrame, harnessVars, imageVars, animVars, ambientVars>>

handleDragEnd ==
    /\ mounted /\ ~crashed
    /\ draggedItem # <<>>
    /\ draggedItem' = <<>>
    /\ emitted' = <<>>
    /\ UNCHANGED <<storage, mounted, crashed, config, edits, renderVars, harnessVars, imageVars, animVars, ambientVars>>

(***************************************************************************)
(* The image: App's handleImageUpload and P5Canvas's effect on [userImage]. *)
(* The effect runs with the commit of a new userImage.  <<>> is null; in    *)
(* lastFrame, image <<>> is the placeholder fill.                           *)
(***************************************************************************)
\* The effect on [userImage]: the decodes in flight after it
DecodingAfterEffect(image) ==
    IF image # <<>> /\ setupDone THEN decoding \cup {image[1]} ELSE decoding

\* The effect on [userImage]: userImageRef.current after it
ImageRefAfterEffect(image) == IF image = <<>> THEN <<>> ELSE userImageRef

\* handleImageUpload(file), file an image file (from the panel's input or dropped)
handleImageUpload(isImage) ==
    /\ mounted /\ ~crashed
    /\ chosen < MaxImages
    /\ chosen' = chosen + 1
    /\ reading' = IF isImage THEN reading \cup {chosen + 1} ELSE reading
    /\ emitted' = <<>>
    /\ UNCHANGED <<appVars, renderVars, harnessVars, animVars, ambientVars, userImage,
                   userImageRef, decoding>>

\* handleImageUpload(null): the panel's remove button, shown while there is an image
removeImage ==
    /\ mounted /\ ~crashed
    /\ userImage # <<>>
    /\ userImage' = <<>>
    /\ userImageRef' = ImageRefAfterEffect(<<>>)
    /\ decoding' = DecodingAfterEffect(<<>>)
    /\ emitted' = <<>>
    /\ UNCHANGED <<appVars, renderVars, harnessVars, animVars, ambientVars, chosen, reading>>

\* reader.onload: setUserImage(e.target.result), and the effect of that commit
readerOnload(image) ==
    /\ mounted /\ ~crashed
    /\ image \in reading
    /\ reading' = reading \ {image}
    /\ userImage' = <<image>>
    /\ userImageRef' = IF userImage = <<image>> THEN userImageRef ELSE ImageRefAfterEffect(<<image>>)
    /\ decoding' = IF userImage = <<image>> THEN decoding ELSE DecodingAfterEffect(<<image>>)
    /\ emitted' = <<>>
    /\ UNCHANGED <<appVars, renderVars, harnessVars, animVars, ambientVars, chosen>>

\* The callback of p5.loadImage: userImageRef.current = img
imageLoaded(image) ==
    /\ mounted /\ ~crashed
    /\ image \in decoding
    /\ decoding' = decoding \ {image}
    /\ userImageRef' = <<image>>
    /\ emitted' = <<>>
    /\ UNCHANGED <<appVars, renderVars, harnessVars, animVars, ambientVars, userImage, chosen,
                   reading>>

(***************************************************************************)
(* P5Canvas: setup and draw.  createShader and the first use of a shader   *)
(* are p5's: whether the composed source compiles, and whether p5 throws   *)
(* or only logs when it does not, are the environment's choice.            *)
(***************************************************************************)
Program(source, ok) == [source |-> source, ok |-> ok]

setup ==
    /\ mounted /\ ~crashed /\ ~setupDone
    /\ setupDone' = TRUE
    /\ shaderRef' = <<Program(generateFragmentShader(config.order), TRUE)>>
    /\ emitted' = <<>>
    /\ UNCHANGED <<appVars, shaderUpdatePending, effectScheduled, orderChanged, lastFrame,
                   harnessVars, imageVars, animVars, ambientVars>>

\* The recompile step: the program held after it.
Recompiled(compiles) ==
    IF shaderUpdatePending
    THEN <<Program(generateFragmentShader(config.order), compiles)>>
    ELSE shaderRef

\* The frame, nowMs being what p5.millis() returns in it.
drawAt(nowMs, compiles, useThrows) ==
    /\ mounted /\ ~crashed /\ setupDone
    /\ LET activeShader == Recompiled(compiles)[1]
           threw == ~activeShader.ok /\ useThrows
       IN  /\ shaderRef' = <<activeShader>>
           /\ shaderUpdatePending' = FALSE
           /\ lastFrame' =
                 [ran |-> TRUE,
                  afterFrame |-> lastFrame.ran,
                  rebuilds |-> IF shaderUpdatePending THEN 1 ELSE 0,
                  compileFailed |-> shaderUpdatePending /\ ~compiles,
                  orderChangedBefore |-> orderChanged,
                  order |-> config.order,
                  layerKeys |-> DOMAIN config.layers,
                  pushed |-> IF threw THEN [k \in {} |-> <<>>] ELSE DynamicUniforms(config.layers),
                  threw |-> threw,
                  shaded |-> ~threw,
                  displayChar |-> AnimAfterFrame(textAnimRef, nowMs).displayChar,
                  currentScale |-> currentScale(textAnimRef, nowMs),
                  image |-> userImageRef]
           /\ emitted' = IF activeShader.ok THEN <<>> ELSE <<"p5: shader failed to compile">>
    /\ textAnimRef' = AnimAfterFrame(textAnimRef, nowMs)
    /\ orderChanged' = FALSE
    /\ UNCHANGED <<appVars, setupDone, effectScheduled, harnessVars, imageVars, displayText, lastInput,
                   viewRef, uiInteractionRef, isSaved, isSidebarOpen>>

\* A frame at the time the clock shows.
draw(compiles, useThrows) ==
    /\ drawAt(now, compiles, useThrows)
    /\ UNCHANGED now

\* The draw loop: ms after the frame before, the next frame is evaluated.
loopFrame(ms) ==
    /\ now + ms <= MaxLoopNow
    /\ now' = now + ms
    /\ drawAt(now + ms, TRUE, FALSE)

(***************************************************************************)
(* The compositor alone, applied to an order.                              *)
(***************************************************************************)
ComposeKeys == {"holographic", "glitch", "vertex_pulse", "sepia"}

ComposeOrders ==
    SeqsUpTo(ComposeKeys, MaxComposeLen)
        \cup {Reorder(DEFAULT_ORDER, i, j) : i, j \in 0..(Len(DEFAULT_ORDER) - 1)}
        \cup {DuplicateOrder, Reverse(DEFAULT_ORDER)}

Compose ==
    /\ composeOut = <<>>
    /\ composeOut' = generateFragmentShader(composeIn)
    /\ UNCHANGED <<appVars, renderVars, emitted, composeIn, animVars, ambientVars, imageVars>>

(***************************************************************************)
(* Specifications.                                                         *)
(***************************************************************************)
Unmounted ==
    /\ mounted = FALSE
    /\ crashed = FALSE
    /\ config = NoConfig
    /\ draggedItem = <<>>
    /\ emitted = <<>>
    /\ edits = 0
    /\ setupDone = FALSE
    /\ shaderRef = <<>>
    /\ shaderUpdatePending = FALSE
    /\ effectScheduled = FALSE
    /\ orderChanged = FALSE
    /\ lastFrame = NoFrame
    /\ now = 0
    /\ textAnimRef = InitialAnim
    /\ displayText = <<"M">>
    /\ lastInput = <<>>
    /\ viewRef = InitialView
    /\ uiInteractionRef = FALSE
    /\ isSaved = FALSE
    /\ isSidebarOpen = TRUE
    /\ userImage = <<>>
    /\ userImageRef = <<>>
    /\ chosen = 0
    /\ reading = {}
    /\ decoding = {}

\* The application in use, from a first run (nothing stored).
Init ==
    /\ storage = [kind |-> "none"]
    /\ Unmounted
    /\ composeIn = <<>>
    /\ composeOut = <<>>

Edit ==
    \/ \E key \in EditKeys : ToggleLayer(key)
    \/ \E key \in EditKeys, param \in {"intensity", "timeScale", "uvScale", "noiseScale", "noiseSpeed"},
          value \in ParamValues : UpdateLayerParam(key, param, value)

DragReorder ==
    \/ \E index \in 0..MaxDragIndex : handleDragStart(index)
    \/ \E index \in 0..MaxDragIndex : handleDragOver(index)
    \/ handleDragEnd

Import ==
    \/ \E text \in ImportTexts : handleImportJson(text)
    \/ \E text \in ImportTexts : onDrop(text)

Frame == draw(TRUE, FALSE)

Next ==
    \/ Mount
    \/ setup
    \/ OrderEffect
    \/ Frame
    \/ Edit
    \/ DragReorder
    \/ Import

Spec == Init /\ [][Next]_vars

\* The same, with shader compilation allowed to fail.
FaultyFrame == \E compiles, useThrows \in BOOLEAN : draw(compiles, useThrows)

NextFault ==
    \/ Mount
    \/ setup
    \/ OrderEffect
    \/ FaultyFrame
    \/ DragReorder

SpecFault == Init /\ [][NextFault]_vars

\* Startup load of any stored text, save and reload.
InitLoad ==
    /\ storage \in StoredTexts
    /\ Unmounted
    /\ composeIn = <<>>
    /\ composeOut = <<>>

NextLoad ==
    \/ Mount
    \/ \E written \in BOOLEAN : handleSaveClick(written)
    \/ savedTimeout
    \/ Reload

SpecLoad == InitLoad /\ [][NextLoad]_vars

\* Startup loads of every stored document, then panel edits, reorders and
\* saves; what the next startup would load is LoadConfig of the saved text.
NextRoundTrip ==
    \/ Mount
    \/ OrderEffect
    \/ Edit
    \/ DragReorder
    \/ \E written \in BOOLEAN : handleSaveClick(written)
    \/ savedTimeout

SpecRoundTrip == InitLoad /\ [][NextRoundTrip]_vars

\* The compositor on any order.
InitCompose ==
    /\ storage = [kind |-> "none"]
    /\ Unmounted
    /\ composeIn \in ComposeOrders
    /\ composeOut = <<>>

NextCompose == Compose

SpecCompose == InitCompose /\ [][NextCompose]_vars

\* Imports and reorders alone.
NextImport ==
    \/ Mount
    \/ OrderEffect
    \/ DragReorder
    \/ Import

SpecImport == Init /\ [][NextImport]_vars

\* Layer edits between frames, the order changing by imports.
NextEdit ==
    \/ Mount
    \/ setup
    \/ OrderEffect
    \/ Frame
    \/ Edit
    \/ Import

SpecEdit == Init /\ [][NextEdit]_vars

\* The panel alone: layer edits and reorders.
NextPanel ==
    \/ Mount
    \/ OrderEffect
    \/ Edit
    \/ DragReorder

SpecPanel == Init /\ [][NextPanel]_vars

\* Drags among the first rows of the default list and of stored lists: one
\* with a repeated key, one in reverse.
DragTexts ==
    {[kind |-> "none"],
     Json([order |-> <<"glitch", "liquid_metal", "glitch">>, layers |-> DEFAULT_CONFIG.layers]),
     Json([order |-> Reverse(DEFAULT_ORDER), layers |-> DEFAULT_CONFIG.layers])}

InitDrag ==
    /\ storage \in DragTexts
    /\ Unmounted
    /\ composeIn = <<>>
    /\ composeOut = <<>>

DragAnyRow ==
    \/ \E index \in 0..MaxDragRow : handleDragStart(index)
    \/ \E index \in 0..MaxDragRow : handleDragOver(index)
    \/ handleDragEnd

NextDrag ==
    \/ Mount
    \/ OrderEffect
    \/ DragAnyRow

SpecDrag == InitDrag /\ [][NextDrag]_vars

\* Frames over every configuration the load can produce.
NextRender ==
    \/ Mount
    \/ setup
    \/ OrderEffect
    \/ Frame

SpecRender == InitLoad /\ [][NextRender]_vars

\* Images chosen and removed, their reads and decodes, and frames.
ImageChoice ==
    \/ \E isImage \in BOOLEAN : handleImageUpload(isImage)
    \/ removeImage

ImageCompletion ==
    \/ \E image \in 1..MaxImages : readerOnload(image)
    \/ \E image \in 1..MaxImages : imageLoaded(image)

NextImage ==
    \/ Mount
    \/ setup
    \/ OrderEffect
    \/ Frame
    \/ ImageChoice
    \/ ImageCompletion

SpecImage == Init /\ [][NextImage]_vars

(***************************************************************************)
(* The text animation: key presses, the clock and frames.                  *)
(***************************************************************************)
NoModifier == [ctrlKey |-> FALSE, metaKey |-> FALSE, altKey |-> FALSE, shiftKey |-> FALSE]

KeyboardEvents ==
    {Spread(NoModifier, [key |-> <<"a">>]),
     Spread(NoModifier, [key |-> <<"A">>, shiftKey |-> TRUE]),
     Spread(NoModifier, [key |-> <<"c">>, ctrlKey |-> TRUE]),
     Spread(NoModifier, [key |-> <<"v">>, metaKey |-> TRUE]),
     Spread(NoModifier, [key |-> <<"x">>, altKey |-> TRUE]),
     Spread(NoModifier, [key |-> <<"E", "n", "t", "e", "r">>]),
     Spread(NoModifier, [key |-> <<"S", "h", "i", "f", "t">>, shiftKey |-> TRUE])}

Elapses == {100, 250}

KeyDown == \E e \in KeyboardEvents : handleKeyDown(e)

Clock == \E ms \in Elapses : Elapse(ms)

NextMorph ==
    \/ Mount
    \/ setup
    \/ OrderEffect
    \/ Frame
    \/ KeyDown
    \/ Clock

SpecMorph == Init /\ [][NextMorph]_vars

\* The draw loop running, key presses coming up to a time and none after it.
KeyInLoop ==
    /\ setupDone
    /\ now <= KeyDeadline
    /\ KeyDown

LoopFrame == \E ms \in Elapses : loopFrame(ms)

\* The clock of the draw loop moves on: what a step of LoopFrame does to now.
LoopTick ==
    /\ mounted /\ ~crashed /\ setupDone
    /\ \E ms \in Elapses : now + ms <= MaxLoopNow /\ now' = now + ms

NextLoop ==
    \/ Mount
    \/ setup
    \/ OrderEffect
    \/ KeyInLoop
    \/ LoopFrame

\* p5 calls draw again and again: the frames, which are the steps of NextLoop
\* that move the clock, are taken as long as they can be.
SpecLoop == Init /\ [][NextLoop]_vars /\ WF_now(LoopTick)

(***************************************************************************)
(* The viewport: drags and wheel events, over the canvas and over the      *)
(* control surface.                                                        *)
(***************************************************************************)
Moves == {-10, 0, 10}

WheelDeltas == {-7000, -300, 300, 7000}

Pointer ==
    \/ pointerEnter
    \/ pointerLeave

\* Pointer positions: the corners of the canvas, and points past each edge.
Pointers ==
    {<<0, 0>>, <<CanvasWidth, CanvasHeight>>, <<-1, 1>>, <<CanvasWidth + 1, 1>>,
     <<1, -1>>, <<1, CanvasHeight + 1>>}

Drag ==
    \E pointer \in Pointers, movedX, movedY \in Moves :
        mouseDragged(pointer[1], pointer[2], movedX, movedY)

Wheel == \E deltaY \in WheelDeltas : mouseWheel(deltaY)

NextView ==
    \/ Mount
    \/ setup
    \/ OrderEffect
    \/ Pointer
    \/ Drag
    \/ Wheel

SpecView == Init /\ [][NextView]_vars

\* The same, the control panel being closed and opened.
Sidebar ==
    \/ onClose
    \/ openSidebar

NextSidebar ==
    \/ Mount
    \/ setup
    \/ OrderEffect
    \/ Pointer
    \/ Sidebar
    \/ Drag
    \/ Wheel

SpecSidebar == Init /\ [][NextSidebar]_vars

(***************************************************************************)
(* Properties.                                                             *)
(***************************************************************************)
IsPermutation(order) == Len(order) = Cardinality(LayerKey) /\ Range(order) = LayerKey

Repaired(cfg) ==
    /\ Has(cfg, "order") /\ IsPermutation(cfg.order)
    /\ Has(cfg, "layers") /\ LayerKey \subseteq DOMAIN cfg.layers

\* C1: the configuration the startup load produces has an order that is a
\* permutation of the 8 LayerKeys, whatever the stored document's order held.
C1_LoadedOrderIsPermutation == (mounted /\ ~LoadFails(storage)) => IsPermutation(config.order)

\* C2: after the import of a document that passes shape validation, through
\* the file picker or by drop, the configuration in use has a permutation as
\* its order and a layers entry for each of the 8 keys.
C2_ImportRepairs ==
    [][(\E text \in ImportTexts :
            /\ handleImportJson(text) \/ onDrop(text)
            /\ text.kind = "json" /\ Has(text.doc, "layers") /\ Has(text.doc, "order"))
        => Repaired(config')]_vars

\* C3: the import of a text that is not JSON, or of a document without
\* `layers` or without `order`, leaves the configuration as it was, on the
\* file-picker path and on the drop path.
Malformed(text) ==
    text.kind # "json" \/ ~Has(text.doc, "layers") \/ ~Has(text.doc, "order")

C3_RejectedImportKeepsConfig ==
    [][(\E text \in ImportTexts : Malformed(text) /\ (handleImportJson(text) \/ onDrop(text)))
        => config' = config]_vars

C3_Witness ==
    /\ emitted = <<"alert: Invalid shader configuration file">>
    /\ config.orderRef > 0
    /\ config.order # DEFAULT_ORDER

\* C4: in every frame that reaches the shading pass, the active program is
\* the one composed from the order of the configuration the frame reads.
C4_ProgramMatchesOrder ==
    lastFrame.shaded => shaderRef[1].source = generateFragmentShader(lastFrame.order)

\* C5: once a program exists, the frame that follows one or more changes of
\* the order performs exactly one rebuild, and a later frame with no change
\* of the order since the frame before it performs none.
C5_ExactlyOneRebuild ==
    lastFrame.ran =>
        /\ lastFrame.orderChangedBefore => lastFrame.rebuilds = 1
        /\ (lastFrame.afterFrame /\ ~lastFrame.orderChangedBefore) => lastFrame.rebuilds = 0

\* C6: a toggle or a parameter edit of a layer leaves the composed source as
\* it was and neither queues the order effect nor sets the pending flag (the
\* flag changes in such a step only by an effect an earlier order change had
\* queued).
C6_EditsNeverRebuild ==
    [][Edit =>
          /\ generateFragmentShader(config'.order) = generateFragmentShader(config.order)
          /\ ~effectScheduled'
          /\ ~effectScheduled => shaderUpdatePending' = shaderUpdatePending]_vars

C6_Witness ==
    /\ edits = 2
    /\ lastFrame.ran /\ lastFrame.afterFrame /\ lastFrame.rebuilds = 0
    /\ "liquid_metal" \in DOMAIN lastFrame.pushed
    /\ lastFrame.pushed["liquid_metal"]["uEnableLiquid"] = <<100>>
    /\ lastFrame.pushed["liquid_metal"]["uNoiseScaleLiquid"] = <<300>>

\* C7: a frame whose recompilation fails keeps the previous valid program
\* active, in that frame and later ones, and ends without an uncaught error.
C7_FailedCompileKeepsProgram == lastFrame.ran => (shaderRef[1].ok /\ ~lastFrame.threw)

\* C8: for every order, with keys missing or repeated too, the composed
\* source holds the uniforms fragment of each of the eight modules exactly
\* once.
Occurrences(source, text) == Cardinality({i \in 1..Len(source) : source[i].text = text})

C8_UniformsExactlyOnce ==
    composeOut # <<>> =>
        \A k \in LayerKey : Occurrences(composeOut, SHADER_MODULES[k].uniforms) = 1

C8_Witness == composeOut # <<>> /\ composeIn = DuplicateOrder

\* C9: the uv fragments, the color fragments and the non-empty split
\* fragments stand in the composed source in the order of the keys: for keys
\* A and B of an order without repeats, A's fragment precedes B's exactly
\* when A precedes B; for every order, the keys of a stage's fragments, read
\* off the source from left to right, are the order's keys that have such a
\* fragment.
Fragment(stage, k) ==
    CASE stage = "uv" -> <<"// " \o k \o " UV">> \o SHADER_MODULES[k].uv
      [] stage = "split" -> <<"// " \o k \o " Split">> \o SHADER_MODULES[k].split
      [] stage = "color" -> <<"// " \o k \o " Color">> \o SHADER_MODULES[k].color

Emits(stage, k) == k \in LayerKey /\ (stage = "split" => SHADER_MODULES[k].split # <<>>)

Places(source, stage, k) == {i \in 1..Len(source) : source[i].text = Fragment(stage, k)}

Indexes(order, k) == {i \in 1..Len(order) : order[i] = k}

NoRepeats(order) == \A i, j \in 1..Len(order) : order[i] = order[j] => i = j

RECURSIVE StageKeys(_, _)
StageKeys(source, stage) ==
    IF source = <<>> THEN <<>>
    ELSE LET here == {k \in LayerKey : Emits(stage, k) /\ Head(source).text = Fragment(stage, k)}
         IN  (IF here = {} THEN <<>> ELSE <<CHOOSE k \in here : TRUE>>)
                 \o StageKeys(Tail(source), stage)

C9_StageFollowsOrder ==
    composeOut # <<>> =>
        \A stage \in {"uv", "split", "color"} :
            /\ StageKeys(composeOut, stage)
                   = SelectSeq(composeIn, LAMBDA k : Emits(stage, k))
            /\ NoRepeats(composeIn) =>
                  \A a, b \in {k \in Range(composeIn) : Emits(stage, k)} :
                      a # b =>
                          ((\E i \in Places(composeOut, stage, a), j \in Places(composeOut, stage, b) : i < j)
                              <=> (\E i \in Indexes(composeIn, a), j \in Indexes(composeIn, b) : i < j))

C9_Witness ==
    /\ composeIn = Reverse(DEFAULT_ORDER)
    /\ composeOut # <<>>
    /\ \E i \in Places(composeOut, "uv", "glitch"), j \in Places(composeOut, "uv", "vertex_pulse") : i < j
    /\ \E i \in Places(composeOut, "split", "holographic"), j \in Places(composeOut, "split", "glitch") : i < j
    /\ \E i \in Places(composeOut, "color", "contrast"), j \in Places(composeOut, "color", "halftone") : i < j

\* C10: for a configuration whose layers are the eight keys, the uniform
\* names the binder pushes for the layers are exactly the names the eight
\* modules' uniforms fragments declare.
DeclaredNames == UNION {Range(SHADER_MODULES[k].uniforms) : k \in LayerKey}

PushedNames(pushed) == UNION {DOMAIN pushed[k] : k \in DOMAIN pushed}

C10_PushedNamesAreDeclared ==
    (lastFrame.shaded /\ lastFrame.layerKeys = LayerKey)
        => PushedNames(lastFrame.pushed) = DeclaredNames

C10_Witness ==
    /\ lastFrame.shaded
    /\ lastFrame.layerKeys = LayerKey
    /\ "uNoiseSpeedLiquid" \in PushedNames(lastFrame.pushed)

\* C11: every frame that reaches the shading pass pushes, for each of the
\* eight keys, uEnable<Short> = 1.0 when the layer is enabled and 0.0
\* otherwise and the layer's intensity, timeScale and uvScale as they are
\* held; for liquid_metal also uNoiseScaleLiquid and uNoiseSpeedLiquid, 2.0
\* and 1.0 standing in for an absent field.
ExpectedUniforms(key, layer) ==
    LET s == nameMap[key]
        common ==
            ("uEnable" \o s) :> <<IF Truthy(layer, "enabled") THEN 100 ELSE 0>>
            @@ ("uIntensity" \o s) :> Get(layer, "intensity")
            @@ ("uTimeScale" \o s) :> Get(layer, "timeScale")
            @@ ("uScale" \o s) :> Get(layer, "uvScale")
    IN  IF key # "liquid_metal" THEN common
        ELSE common
             @@ "uNoiseScaleLiquid" :> (IF Has(layer, "noiseScale") THEN <<layer.noiseScale>> ELSE <<200>>)
             @@ "uNoiseSpeedLiquid" :> (IF Has(layer, "noiseSpeed") THEN <<layer.noiseSpeed>> ELSE <<100>>)

C11_BinderPushesEveryLayer ==
    [][(Frame /\ lastFrame'.shaded) =>
          \A k \in LayerKey :
              /\ k \in DOMAIN config.layers
              /\ k \in DOMAIN lastFrame'.pushed
              /\ lastFrame'.pushed[k] = ExpectedUniforms(k, config.layers[k])]_vars

\* C12: an accepted key press while the phase is OUT changes nextChar, to the
\* key pressed, and nothing else of the animation state; the scale a frame
\* draws at any later time is what it was to be without the key press.
LaterTimes == {now + 100 * n : n \in 0..5}

C12_KeyDuringOutOnlyRenames ==
    [][\A e \in KeyboardEvents :
          (textAnimRef.phase = "OUT" /\ KeyAccepted(e) /\ handleKeyDown(e)) =>
              /\ textAnimRef'.nextChar = e.key
              /\ textAnimRef' = [textAnimRef EXCEPT !.nextChar = e.key]
              /\ \A t \in LaterTimes :
                    currentScale(textAnimRef', t) = currentScale(textAnimRef, t)]_vars

C12_Witness ==
    /\ lastInput = <<[kind |-> "key", phase |-> "OUT"]>>
    /\ textAnimRef.phase = "OUT"
    /\ textAnimRef.startTime < now
    /\ textAnimRef.nextChar = <<"A">>
    /\ textAnimRef.displayChar = <<"a">>
    /\ lastFrame.ran /\ RLess(Zero, lastFrame.currentScale) /\ RLess(lastFrame.currentScale, One)

\* C13: an accepted key press at time t while the phase is IN enters OUT with
\* startTime = t and with startScale the scale the IN phase has at t,
\* startScale + (1 - startScale) * ease(min(1, (t - startTime) / 500)): the
\* scale a frame draws at t is the same before and after the key press.
ScaleOfInAt(anim, t) ==
    Norm(RAdd(anim.startScale,
              RMul(RSub(One, anim.startScale),
                   easeInOutCubic(RMin(One, Rat(t - anim.startTime, 500))))))

C13_KeyDuringInKeepsScale ==
    [][\A e \in KeyboardEvents :
          (textAnimRef.phase = "IN" /\ KeyAccepted(e) /\ handleKeyDown(e)) =>
              /\ textAnimRef'.phase = "OUT"
              /\ textAnimRef'.startTime = now
              /\ textAnimRef'.startScale = ScaleOfInAt(textAnimRef, now)
              /\ currentScale(textAnimRef', now) = currentScale(textAnimRef, now)]_vars

C13_Witness ==
    /\ lastInput = <<[kind |-> "key", phase |-> "IN"]>>
    /\ textAnimRef.phase = "OUT"
    /\ textAnimRef.startTime = now
    /\ textAnimRef.startScale = <<1, 2>>
    /\ currentScale(textAnimRef, now) = <<1, 2>>

\* C14: a keyboard event changes the animation state only when its key is a
\* single character and none of Shift, Ctrl, Alt and Meta is held; every
\* other keyboard event leaves displayChar, nextChar, phase, startTime and
\* startScale as they were.
PlainCharacter(e) ==
    Len(e.key) = 1 /\ ~e.shiftKey /\ ~e.ctrlKey /\ ~e.altKey /\ ~e.metaKey

C14_OnlyPlainCharactersAct ==
    [][\A e \in KeyboardEvents :
          (~PlainCharacter(e) /\ handleKeyDown(e)) =>
              /\ textAnimRef'.displayChar = textAnimRef.displayChar
              /\ textAnimRef'.nextChar = textAnimRef.nextChar
              /\ textAnimRef'.phase = textAnimRef.phase
              /\ textAnimRef'.startTime = textAnimRef.startTime
              /\ textAnimRef'.startScale = textAnimRef.startScale]_vars

\* C15: whatever wheel events and drags came, with any deltaY, the zoom of
\* the viewport is within [0.1, 5.0].
C15_ZoomWithinClamp == viewRef.zoom >= 100 /\ viewRef.zoom <= 5000

C15_Witness ==
    /\ viewRef.zoom = 5000
    /\ viewRef.x # 0
    /\ lastInput = <<[kind |-> "wheel", gated |-> FALSE]>>

\* C16: while the UI-interaction flag is true, a drag event and a wheel
\* event leave x, y and zoom of the viewport unchanged.
C16_GatedByInteractionFlag ==
    [][(uiInteractionRef /\ (Drag \/ Wheel)) => viewRef' = viewRef]_vars

C16_Witness ==
    /\ uiInteractionRef
    /\ lastInput = <<[kind |-> "drag", gated |-> TRUE]>>
    /\ viewRef.x = 10 /\ viewRef.zoom = 1300

\* C17: after the startup load of a stored document that has a layers
\* object, config.layers has an entry for each of the 8 keys; the entry of a
\* key the document did not have is the documented default (holographic,
\* vertex_pulse and double_exposure enabled, the others not; intensity 1.0,
\* but 0.47 for double_exposure and 50.0 for contrast; timeScale 1.4 and
\* uvScale 4.9), and the entry of a key the document had keeps the stored
\* enabled and intensity.
DocumentedDefault(k) ==
    [enabled |-> k \in {"holographic", "vertex_pulse", "double_exposure"},
     intensity |-> CASE k = "double_exposure" -> 47
                     [] k = "contrast" -> 5000
                     [] OTHER -> 100,
     timeScale |-> 140,
     uvScale |-> 490]

C17_LoadFillsLayers ==
    (mounted /\ storage.kind = "json" /\ Has(storage.doc, "layers")) =>
        \A k \in LayerKey :
            /\ k \in DOMAIN config.layers
            /\ k \notin DOMAIN storage.doc.layers =>
                  \A f \in DOMAIN DocumentedDefault(k) :
                      Get(config.layers[k], f) = <<DocumentedDefault(k)[f]>>
            /\ k \in DOMAIN storage.doc.layers =>
                  \A f \in {"enabled", "intensity"} :
                      Get(config.layers[k], f) = Get(storage.doc.layers[k], f)

C17_Witness ==
    /\ mounted
    /\ storage.kind = "json" /\ Has(storage.doc, "layers")
    /\ DOMAIN storage.doc.layers = {"holographic"}
    /\ Has(storage.doc, "speed")
    /\ config.layers["holographic"].enabled = FALSE
    /\ config.layers["holographic"].intensity = 300
    /\ config.layers["contrast"].intensity = 5000
    /\ config.layers["double_exposure"].enabled

\* C18, as stated: at first run, and after the load of a stored document
\* that has no order, config.order is the enumeration order of the data
\* model: holographic, liquid_metal, vertex_pulse, pixel_artefact,
\* double_exposure, glitch, halftone, contrast.
DefaultOrderApplies ==
    /\ mounted
    /\ \/ storage.kind = "none"
       \/ storage.kind = "json" /\ Has(storage.doc, "layers") /\ ~Has(storage.doc, "order")

C18_DefaultOrderIsEnumeration ==
    DefaultOrderApplies =>
        config.order = <<"holographic", "liquid_metal", "vertex_pulse", "pixel_artefact",
                         "double_exposure", "glitch", "halftone", "contrast">>

\* C18, amended: at first run, and after the load of a stored document that
\* has no order, config.order is vertex_pulse, liquid_metal, glitch,
\* pixel_artefact, halftone, holographic, double_exposure, contrast.
C18_DefaultOrderIsPipeline ==
    DefaultOrderApplies =>
        config.order = <<"vertex_pulse", "liquid_metal", "glitch", "pixel_artefact",
                         "halftone", "holographic", "double_exposure", "contrast">>

C18_Witness ==
    /\ mounted
    /\ storage.kind = "json" /\ ~Has(storage.doc, "order") /\ Has(storage.doc, "layers")
    /\ DOMAIN storage.doc.layers = {"glitch", "sepia"}
    /\ config.order[1] = "vertex_pulse" /\ config.order[5] = "halftone"

\* C19: when the write of the configuration to storage fails, the failure
\* is logged, nothing is thrown to the caller, and the panel shows no save
\* confirmation: its saved indicator is off after the click.
C19_FailedSaveShowsNoConfirmation ==
    [][handleSaveClick(FALSE) =>
          /\ emitted' = <<"console.error: Failed to save config">>
          /\ storage' = storage
          /\ ~isSaved']_vars

\* C20: every import rejected for a shape error (valid JSON without `layers`
\* or without `order`), from the file picker or from a dropped file, shows
\* the user a notice: the handler raises an alert.
ShapeError(text) ==
    text.kind = "json" /\ (~Has(text.doc, "layers") \/ ~Has(text.doc, "order"))

UserVisible(message) == message = "alert: Invalid shader configuration file"

C20_ShapeRejectionIsAnnounced ==
    [][(\E text \in ImportTexts : ShapeError(text) /\ (handleImportJson(text) \/ onDrop(text)))
        => \E i \in DOMAIN emitted' : UserVisible(emitted'[i])]_vars

\* C21: after the startup load of a stored document of the old schema (one
\* with a global `speed` or `scale`, and a layers object), each of the 8
\* layers has timeScale equal to the old speed and uvScale equal to the old
\* scale, 1.4 and 4.9 standing in for the one of the pair that is absent.
OldSchema(doc) == Has(doc, "layers") /\ (Has(doc, "speed") \/ Has(doc, "scale"))

OldSpeed(doc) == IF Has(doc, "speed") THEN doc.speed ELSE 140

OldScale(doc) == IF Has(doc, "scale") THEN doc.scale ELSE 490

C21_LegacyPairFansOutToAllLayers ==
    (mounted /\ storage.kind = "json" /\ OldSchema(storage.doc)) =>
        \A k \in LayerKey :
            /\ k \in DOMAIN config.layers
            /\ Get(config.layers[k], "timeScale") = <<OldSpeed(storage.doc)>>
            /\ Get(config.layers[k], "uvScale") = <<OldScale(storage.doc)>>

\* C22: a panel edit yields a new configuration and leaves the one it
\* started from as it was.  A toggle or a parameter change of layer K yields
\* a configuration that differs from the old one in that one field of layer
\* K only: the order is the same array, every other layer and every other
\* field of K has its old value.  A reorder works on a copy of the order
\* array and leaves the layers as they were.
DiffersOnlyIn(old, new, key, field) ==
    /\ DOMAIN new = DOMAIN old
    /\ new.order = old.order /\ new.orderRef = old.orderRef
    /\ DOMAIN new.layers = DOMAIN old.layers
    /\ \A k \in DOMAIN old.layers \ {key} : new.layers[k] = old.layers[k]
    /\ DOMAIN new.layers[key] = DOMAIN old.layers[key] \cup {field}
    /\ \A f \in DOMAIN old.layers[key] \ {field} : new.layers[key][f] = old.layers[key][f]

C22_EditsCopyOnWrite ==
    [][/\ \A key \in EditKeys :
             ToggleLayer(key) =>
                 /\ DiffersOnlyIn(config, config', key, "enabled")
                 /\ config'.layers[key].enabled = ~Truthy(config.layers[key], "enabled")
       /\ \A key \in EditKeys, value \in ParamValues :
             \A param \in {"intensity", "timeScale", "uvScale", "noiseScale", "noiseSpeed"} :
                 UpdateLayerParam(key, param, value) =>
                     /\ DiffersOnlyIn(config, config', key, param)
                     /\ config'.layers[key][param] = value
       /\ DragReorder =>
             /\ config'.layers = config.layers
             /\ config'.order # config.order => config'.orderRef > config.orderRef]_vars

C22_Witness ==
    /\ edits = 2
    /\ config.orderRef > 0 /\ config.order # DEFAULT_ORDER
    /\ config.layers["liquid_metal"].enabled
    /\ config.layers["liquid_metal"].uvScale = 300
    /\ config.layers["liquid_metal"].noiseScale = 250

C24_OutCompletionCommitsGlyph ==
    [][(Frame /\ textAnimRef.phase = "OUT") =>
          IF now - textAnimRef.startTime >= 500
          THEN /\ textAnimRef'.displayChar = textAnimRef.nextChar
               /\ textAnimRef'.nextChar = textAnimRef.nextChar
               /\ textAnimRef'.phase = "IN"
               /\ textAnimRef'.startScale = Zero
               /\ textAnimRef'.startTime = now
               /\ lastFrame'.currentScale = Zero
               /\ lastFrame'.displayChar = textAnimRef.nextChar
          ELSE textAnimRef' = textAnimRef]_vars

C24_Witness ==
    /\ lastFrame.ran /\ lastFrame.currentScale = Zero
    /\ lastFrame.displayChar = <<"A">>
    /\ textAnimRef.phase = "IN" /\ textAnimRef.startTime = now
    /\ now = 600
    /\ textAnimRef.displayChar = <<"A">>

\* C25: over every interleaving of key presses and frames the phase changes
\* only from IDLE to OUT and from IN to OUT, by a key press, and from OUT to
\* IN and from IN to IDLE, by a frame that finds 500 ms elapsed; it never
\* goes from OUT to IDLE or from IDLE to IN, and one frame makes at most one
\* of these changes.
PhaseStep == <<textAnimRef.phase, textAnimRef'.phase>>

C25_PhaseTransitions ==
    [][textAnimRef'.phase # textAnimRef.phase =>
          \/ PhaseStep \in {<<"IDLE", "OUT">>, <<"IN", "OUT">>} /\ KeyDown
          \/ /\ PhaseStep \in {<<"OUT", "IN">>, <<"IN", "IDLE">>}
             /\ now - textAnimRef.startTime >= 500
             /\ Frame]_vars

C25_Witness ==
    /\ lastInput = <<[kind |-> "key", phase |-> "IN"]>>
    /\ lastFrame.ran /\ lastFrame.currentScale = Zero
    /\ textAnimRef.phase = "IN" /\ textAnimRef.startTime = now /\ now >= 1000
    /\ textAnimRef.displayChar = <<"A">>

\* C26: with the renderer running, frames evaluated again and again as time
\* advances, and no key press accepted any more, the animation reaches IDLE
\* with displayChar the last key accepted, whatever the phases were in which
\* the earlier key presses came.  (displayText holds the last key that
\* passed the filter.)
AcceptedKeys == {e.key : e \in {k \in KeyboardEvents : KeyAccepted(k)}} \cup {<<"M">>}

C26_SettlesOnLastKey ==
    \A key \in AcceptedKeys :
        (setupDone /\ now > KeyDeadline /\ displayText = key)
            ~> (textAnimRef.phase = "IDLE" /\ textAnimRef.displayChar = key)

C26_Witness ==
    /\ lastInput = <<[kind |-> "key", phase |-> "IN"]>>
    /\ now > KeyDeadline
    /\ textAnimRef.phase = "IDLE"
    /\ displayText = <<"A">> /\ textAnimRef.displayChar = <<"A">>

\* C27: in every reachable state of the animation whose phase is IDLE or IN,
\* displayChar equals nextChar; the two differ only while the phase is OUT.
C27_GlyphsAgreeOutsideOut ==
    textAnimRef.phase \in {"IDLE", "IN"} => textAnimRef.displayChar = textAnimRef.nextChar

C27_Witness ==
    /\ textAnimRef.phase = "IN"
    /\ textAnimRef.displayChar = <<"A">> /\ textAnimRef.nextChar = <<"A">>
    /\ lastFrame.ran /\ lastFrame.displayChar = <<"A">>
    /\ RLess(Zero, lastFrame.currentScale) /\ RLess(lastFrame.currentScale, One)

\* C28: no key press changes displayChar; it changes only in a frame that
\* ends OUT (phase OUT, 500 ms elapsed), and that frame draws the new glyph
\* at scale 0: the glyph is never swapped while drawn at a size above 0.
C28_GlyphSwapsAtScaleZero ==
    [][/\ KeyDown => textAnimRef'.displayChar = textAnimRef.displayChar
       /\ textAnimRef'.displayChar # textAnimRef.displayChar =>
             /\ Frame
             /\ textAnimRef.phase = "OUT" /\ now - textAnimRef.startTime >= 500
             /\ lastFrame'.displayChar = textAnimRef'.displayChar
             /\ lastFrame'.currentScale = Zero]_vars

C28_Witness ==
    /\ lastInput = <<[kind |-> "key", phase |-> "IDLE"]>>
    /\ lastFrame.ran /\ lastFrame.displayChar = <<"a">> /\ lastFrame.currentScale = Zero
    /\ textAnimRef.displayChar = <<"a">>
    /\ textAnimRef.phase = "IN" /\ textAnimRef.startTime = now

\* C29: in every reachable state startScale is within [0, 1]; the scale a
\* frame draws is within [0, 1]; a frame that finds the phase IDLE draws the
\* scale 1.0 exactly.
WithinUnit(x) == ~RLess(x, Zero) /\ ~RLess(One, x)

C29_ScaleWithinUnit ==
    /\ [](WithinUnit(textAnimRef.startScale) /\ (lastFrame.ran => WithinUnit(lastFrame.currentScale)))
    /\ [][(Frame /\ textAnimRef.phase = "IDLE") => lastFrame'.currentScale = One]_vars

C29_Witness ==
    /\ lastInput = <<[kind |-> "key", phase |-> "IN"]>>
    /\ textAnimRef.phase = "OUT"
    /\ RLess(Zero, textAnimRef.startScale) /\ RLess(textAnimRef.startScale, <<1, 2>>)
    /\ lastFrame.ran /\ RLess(Zero, lastFrame.currentScale)
    /\ RLess(lastFrame.currentScale, textAnimRef.startScale)

\* C30: a drag event adds (movedX, movedY) to the pan offset exactly when
\* the flag is false and the pointer is within the canvas, its edges
\* included (0 <= mouseX <= width and 0 <= mouseY <= height); otherwise x and
\* y stay as they were; no drag changes the zoom.
C30_DragPansInsideCanvas ==
    [][\A pointer \in Pointers, movedX, movedY \in Moves :
          mouseDragged(pointer[1], pointer[2], movedX, movedY) =>
              /\ viewRef'.zoom = viewRef.zoom
              /\ IF /\ ~uiInteractionRef
                    /\ 0 <= pointer[1] /\ pointer[1] <= CanvasWidth
                    /\ 0 <= pointer[2] /\ pointer[2] <= CanvasHeight
                 THEN viewRef'.x = viewRef.x + movedX /\ viewRef'.y = viewRef.y + movedY
                 ELSE viewRef'.x = viewRef.x /\ viewRef'.y = viewRef.y]_vars

C30_Witness ==
    /\ lastInput = <<[kind |-> "drag", gated |-> FALSE]>>
    /\ viewRef.x = 10 /\ viewRef.y = -10
    /\ viewRef.zoom = 700

\* C31: with the flag false, a wheel event with deltaY sets the zoom to
\* max(0.1, min(5.0, zoom - deltaY * 0.001)) and leaves x and y as they were
\* (the handler does not look at the pointer's position).  Because of the
\* clamp two wheel events need not give the zoom that one event with the sum
\* of their deltas gives: the witness is a state from which they do not.
Max(a, b) == IF a > b THEN a ELSE b

Min(a, b) == IF a < b THEN a ELSE b

ZoomAfter(zoom, deltaY) == Max(100, Min(5000, zoom - deltaY))

C31_WheelZoomsClamped ==
    [][\A deltaY \in WheelDeltas :
          (~uiInteractionRef /\ mouseWheel(deltaY)) =>
              /\ viewRef'.zoom = ZoomAfter(viewRef.zoom, deltaY)
              /\ viewRef'.x = viewRef.x /\ viewRef'.y = viewRef.y]_vars

C31_Witness ==
    /\ lastInput = <<[kind |-> "wheel", gated |-> FALSE]>>
    /\ viewRef.zoom = 4700 /\ viewRef.y = 10
    /\ \E d1, d2 \in WheelDeltas :
          ZoomAfter(ZoomAfter(viewRef.zoom, d1), d2) # ZoomAfter(viewRef.zoom, d1 + d2)

\* C32: in every reachable state in which the control panel is closed the
\* UI-interaction flag is false, so that drags and wheel events over the
\* canvas take effect.
C32_ClosedPanelClearsFlag == ~isSidebarOpen => ~uiInteractionRef

\* C33: whatever the interleaving of image choices, removals and
\* completions of reads and decodes, a frame evaluated while no read and no
\* decode is in flight draws the application's current image: the
\* placeholder when there is none, otherwise that image (the one chosen
\* last), not one whose decode ended late and not the placeholder because
\* the image came before the renderer was set up.
C33_QuiescentFrameDrawsCurrentImage ==
    [][(Frame /\ reading = {} /\ decoding = {}) => lastFrame'.image = userImage]_vars

\* C34: for every configuration reached by a startup load (of an old-schema
\* document too) followed by panel edits, saving it and loading the saved
\* text at the next startup yields the same order and, for every layer, the
\* same enabled, intensity, timeScale and uvScale.
RoundTripFields == {"enabled", "intensity", "timeScale", "uvScale"}

SameField(a, b, f) == (Has(a, f) <=> Has(b, f)) /\ (Has(a, f) => a[f] = b[f])

SameSettings(a, b) ==
    /\ a.order = b.order
    /\ DOMAIN a.layers = DOMAIN b.layers
    /\ \A k \in DOMAIN a.layers : \A f \in RoundTripFields : SameField(a.layers[k], b.layers[k], f)

\* LoadConfig(Stringify(config)) is what the next startup loads after a save.
C34_SaveThenLoadKeepsSettings ==
    (mounted /\ ~crashed) => SameSettings(LoadConfig(Stringify(config)), config)

\* C35: hovering row j while row i is dragged (i # j) moves the dragged key to
\* index j, keeps the other keys in their relative order and keeps the
\* multiset of keys; hovering the dragged row itself, or hovering while no
\* drag is in progress, leaves the configuration as it was.
Without(order, index) == SubSeq(order, 1, index) \o SubSeq(order, index + 2, Len(order))

KeyCount(order, key) == Cardinality({n \in 1..Len(order) : order[n] = key})

StageRank ==
    [header |-> 1, uniforms |-> 2, main |-> 3, uv |-> 4, split |-> 5, sampling |-> 6,
     color |-> 7, end |-> 8]

PartCount(source, part) == Cardinality({i \in 1..Len(source) : source[i].part = part})

C36_StagesInFixedLayout ==
    composeOut # <<>> =>
        /\ \A i, j \in 1..Len(composeOut) :
               i < j => StageRank[composeOut[i].part] <= StageRank[composeOut[j].part]
        /\ composeOut[1] = Piece("header", "", SHADER_HEADER)
        /\ composeOut[Len(composeOut)].text = <<"gl_FragColor = color", "}">>
        /\ \A part \in {"header", "main", "sampling", "end"} : PartCount(composeOut, part) = 1
        /\ PartCount(composeOut, "uniforms") = Len(MODULE_KEYS)
        /\ PartCount(composeOut, "uv") = Len(SelectSeq(composeIn, LAMBDA k : Emits("uv", k)))
        /\ PartCount(composeOut, "split") = Len(SelectSeq(composeIn, LAMBDA k : Emits("split", k)))
        /\ PartCount(composeOut, "color") = Len(SelectSeq(composeIn, LAMBDA k : Emits("color", k)))

C36_Witness ==
    /\ composeIn = <<"glitch", "sepia", "holographic">>
    /\ PartCount(composeOut, "uv") = 2
    /\ PartCount(composeOut, "split") = 2
    /\ PartCount(composeOut, "sampling") = 1

\* C37: the startup load always leaves a configuration with an order and a
\* layers object, and when storage is empty, holds unparsable text or holds a
\* document the repair cannot process (one with no layers object), the
\* application starts with the default configuration, which renders.
Unusable(saved) ==
    \/ saved.kind = "none"
    \/ saved.kind = "garbage"
    \/ saved.kind = "json" /\ ~Has(saved.doc, "layers")

\* Storage changes after the load only by a save, which writes a document
\* with a layers object: while storage is unusable it is what the load read.
C37_LoadFallsBackToDefault ==
    /\ mounted => (Has(config, "order") /\ Has(config, "layers"))
    /\ (mounted /\ Unusable(storage)) => (config = DEFAULT_CONFIG /\ ~crashed)

C37_Witness ==
    /\ mounted /\ ~crashed
    /\ storage.kind = "json" /\ ~Has(storage.doc, "layers")
    /\ Has(storage.doc, "order") /\ Has(storage.doc, "speed")
    /\ emitted = <<"console.error: Failed to load saved config">>
    /\ config = DEFAULT_CONFIG

====
